---------------------------- MODULE Spec2Model ----------------------------
(***************************************************************************)
(* A model of the one-dimensional finite-volume Euler solver of            *)
(* write_a_hydrocode.ipynb: the ghosted grid (FVGrid), the conversion to   *)
(* primitive variables, the piecewise-linear reconstruction, the flux      *)
(* divergence, the CFL timestep and the two-stage method-of-lines driver   *)
(* (mol_solve).                                                            *)
(*                                                                         *)
(* Numbers.  The program computes in float64.  A float is modelled as a    *)
(* fixed-point number: the integer v stands for v/Scale, every product,    *)
(* quotient and square root is rounded to the nearest representable value  *)
(* (as every float operation is), a result beyond the largest finite value *)
(* MaxF overflows to an infinity, and NaN and the two infinities follow    *)
(* the IEEE rules numpy applies (x/0 = inf, 0/0 = nan, nan is contagious   *)
(* and compares false with everything).  Sums of representable values are  *)
(* exact unless they overflow, and zero carries no sign.                   *)
(***************************************************************************)
EXTENDS Integers, Sequences, FiniteSets, TLC

----------------------------------------------------------------------------
(* Resolution and range of the number model, and the bounds on the inputs. *)

ScaleTens == 10
Scale == 10 * ScaleTens
MaxF == 40000
MaxNx == 2
MaxNg == 3
MaxX == 1

PInf == MaxF + 1
NInf == 0 - (MaxF + 1)
NaN == MaxF + 2

IsNaN(a) == a = NaN
IsInf(a) == a = PInf \/ a = NInf
IsFinite(a) == ~IsNaN(a) /\ ~IsInf(a)

Abs(n) == IF n < 0 THEN 0 - n ELSE n
Sgn(n) == IF n < 0 THEN 0 - 1 ELSE IF n > 0 THEN 1 ELSE 0

\* n/d rounded to the nearest integer, halves away from zero (d # 0).
RoundDiv(n, d) == Sgn(n) * Sgn(d) * ((Abs(n) + (Abs(d) \div 2)) \div Abs(d))

\* A finite result, or the infinity it overflows to.
Clamp(n) == IF n > MaxF THEN PInf ELSE IF n < 0 - MaxF THEN NInf ELSE n

\* The float of a Python int.
IntToF(n) == Clamp(n * Scale)

\* The float of the decimal literal n/1000.
Lit(n) == RoundDiv(n * Scale, 1000)

FNeg(a) == IF IsNaN(a) THEN NaN ELSE 0 - a

FAdd(a, b) ==
    IF IsNaN(a) \/ IsNaN(b) THEN NaN
    ELSE IF IsInf(a) /\ IsInf(b) THEN (IF a = b THEN a ELSE NaN)
    ELSE IF IsInf(a) THEN a
    ELSE IF IsInf(b) THEN b
    ELSE Clamp(a + b)

FSub(a, b) == FAdd(a, FNeg(b))

FMul(a, b) ==
    IF IsNaN(a) \/ IsNaN(b) THEN NaN
    ELSE IF IsInf(a) \/ IsInf(b)
         THEN (IF a = 0 \/ b = 0 THEN NaN
               ELSE IF Sgn(a) * Sgn(b) > 0 THEN PInf ELSE NInf)
    ELSE Clamp(RoundDiv(a * b, Scale))

\* numpy's true division: a zero divisor gives an infinity or nan and a
\* RuntimeWarning, never an exception.
FDiv(a, b) ==
    IF IsNaN(a) \/ IsNaN(b) THEN NaN
    ELSE IF IsInf(a) /\ IsInf(b) THEN NaN
    ELSE IF IsInf(b) THEN 0
    ELSE IF b = 0 THEN (IF a = 0 THEN NaN ELSE IF a > 0 THEN PInf ELSE NInf)
    ELSE IF IsInf(a) THEN (IF Sgn(a) * Sgn(b) > 0 THEN PInf ELSE NInf)
    ELSE Clamp(RoundDiv(a * Scale, b))

FAbs(a) == IF IsNaN(a) THEN NaN ELSE Abs(a)

\* The comparisons of floats: false whenever an operand is nan.
FLt(a, b) == ~IsNaN(a) /\ ~IsNaN(b) /\ a < b
FGt(a, b) == FLt(b, a)

\* The largest r in lo..hi with r*r <= n (lo*lo <= n assumed).
RECURSIVE ISqrtIn(_, _, _)
ISqrtIn(n, lo, hi) ==
    IF lo >= hi THEN lo
    ELSE LET mid == (lo + hi + 1) \div 2
         IN  IF mid * mid <= n THEN ISqrtIn(n, mid, hi)
             ELSE ISqrtIn(n, lo, mid - 1)

\* np.sqrt: nan (and a warning) for a negative argument.
FSqrt(a) ==
    IF IsNaN(a) \/ a < 0 THEN NaN
    ELSE IF a = PInf THEN PInf
    ELSE LET n == a * Scale
             r == ISqrtIn(n, 0, MaxF)
         IN  IF n - r * r > r THEN r + 1 ELSE r

\* ndarray.max(): the maximum of a non-empty set of floats, nan if any is.
FMaxOf(S) ==
    IF \E v \in S : IsNaN(v) THEN NaN
    ELSE CHOOSE v \in S : \A w \in S : w <= v

----------------------------------------------------------------------------
(* The global quantities of the notebook.                                  *)

URHO == 0
UMX == 1
UENER == 2
QRHO == 0
QU == 1
QP == 2
NVAR == 3
gamma == Lit(1400)
C == Lit(800)
tmax == Lit(200)

One == IntToF(1)
Half == Lit(500)
Comps == 0 .. (NVAR - 1)

----------------------------------------------------------------------------
(* FVGrid.                                                                 *)

\* (xmax - xmin)/(nx) divides two Python scalars: a zero nx raises
\* ZeroDivisionError out of the constructor.  Nothing else is tested.
FVGridRaises(nx, ng, xmin, xmax) == nx = 0

\* The grid object __init__ leaves behind (nx # 0).  np.arange of a
\* non-positive count is the empty array.
FVGrid(nx, ng, xmin, xmax) ==
    LET dx == FDiv(FSub(xmax, xmin), IntToF(nx))
    IN  [nx |-> nx, ng |-> ng, xmin |-> xmin, xmax |-> xmax,
         ilo |-> ng, ihi |-> ng + nx - 1, dx |-> dx,
         x |-> [i \in 0 .. (nx + 2 * ng - 1) |->
                  FAdd(xmin, FMul(FAdd(IntToF(i - ng), Half), dx))]]

NoGrid == [nx |-> 0, ng |-> 0, xmin |-> 0, xmax |-> 0, ilo |-> 0,
           ihi |-> 0 - 1, dx |-> 0, x |-> <<>>]

Cells(g) == 0 .. (g.nx + 2 * g.ng - 1)
Interior(g) == g.ilo .. g.ihi
Interfaces(g) == g.ilo .. (g.ihi + 1)

scratch_array(g, nc) ==
    IF nc = 1 THEN [i \in Cells(g) |-> 0]
    ELSE [i \in Cells(g) |-> [n \in 0 .. (nc - 1) |-> 0]]

\* A fill that shifts the low ghost cells by one: atmp[0:ilo] = atmp[1:ilo+1].
fill_BCs_scalar_shift(g, atmp) ==
    [i \in DOMAIN atmp |->
        IF i < g.ilo THEN atmp[i + 1]
        ELSE IF i > g.ihi THEN atmp[g.ihi] ELSE atmp[i]]

\* The nc == 1 branch: atmp[0:ilo] = atmp[ilo]; atmp[ihi+1:] = atmp[ihi].
fill_BCs_scalar(g, atmp) ==
    LET low == [i \in DOMAIN atmp |-> IF i < g.ilo THEN atmp[g.ilo] ELSE atmp[i]]
    IN  [i \in DOMAIN atmp |-> IF i > g.ihi THEN low[g.ihi] ELSE low[i]]

\* A fill whose high side copies the first ghost cell: atmp[ihi+1:] = atmp[ihi+1].
fill_BCs_vector_offbyone(g, atmp, nc) ==
    [i \in DOMAIN atmp |-> [n \in 0 .. (nc - 1) |->
        IF i < g.ilo THEN atmp[g.ilo][n]
        ELSE IF i > g.ihi THEN atmp[g.ihi + 1][n] ELSE atmp[i][n]]]

\* The loop over the nc components of a vector field.
fill_BCs_vector(g, atmp, nc) ==
    LET low == [i \in DOMAIN atmp |-> [n \in 0 .. (nc - 1) |->
                   IF i < g.ilo THEN atmp[g.ilo][n] ELSE atmp[i][n]]]
    IN  [i \in DOMAIN atmp |-> [n \in 0 .. (nc - 1) |->
                   IF i > g.ihi THEN low[g.ihi][n] ELSE low[i][n]]]

\* fill_BCs on a field whose shape gives nc (1 for a one-dimensional array).
fill_BCs(g, atmp, nc) ==
    IF nc = 1 THEN fill_BCs_scalar(g, atmp) ELSE fill_BCs_vector(g, atmp, nc)

----------------------------------------------------------------------------
(* Conversion and reconstruction.                                          *)

cons_to_prim(g, U) ==
    [i \in Cells(g) |->
        LET rho == U[i][URHO]
            u == FDiv(U[i][UMX], U[i][URHO])
            p == FMul(FSub(U[i][UENER], FMul(FMul(Half, rho), FMul(u, u))),
                      FSub(gamma, One))
        IN  [n \in Comps |-> IF n = QRHO THEN rho ELSE IF n = QU THEN u ELSE p]]

\* Slopes with the difference mistyped as a sum.
slopes_sum(g, q) ==
    [i \in Cells(g) |-> [n \in Comps |->
        IF i >= g.ilo - 1 /\ i <= g.ihi + 1
        THEN FMul(Half, FAdd(q[i + 1][n], q[i - 1][n]))
        ELSE 0]]

\* dq[ilo-1:ihi+2] = 0.5*(q[ilo:ihi+3] - q[ilo-2:ihi+1]), zero elsewhere.
slopes(g, q) ==
    LET dq == scratch_array(g, NVAR)
    IN  [i \in Cells(g) |-> [n \in Comps |->
           IF i >= g.ilo - 1 /\ i <= g.ihi + 1
           THEN FMul(Half, FSub(q[i + 1][n], q[i - 1][n]))
           ELSE dq[i][n]]]

\* q_l[ilo:ihi+2] = q[ilo-1:ihi+1] + 0.5*dq[ilo-1:ihi+1]
left_states(g, q, dq) ==
    LET q_l == scratch_array(g, NVAR)
    IN  [i \in Cells(g) |-> [n \in Comps |->
           IF i \in Interfaces(g)
           THEN FAdd(q[i - 1][n], FMul(Half, dq[i - 1][n]))
           ELSE q_l[i][n]]]

\* q_r[ilo:ihi+2] = q[ilo:ihi+2] - 0.5*dq[ilo:ihi+2]
right_states(g, q, dq) ==
    LET q_r == scratch_array(g, NVAR)
    IN  [i \in Cells(g) |-> [n \in Comps |->
           IF i \in Interfaces(g)
           THEN FSub(q[i][n], FMul(Half, dq[i][n]))
           ELSE q_r[i][n]]]

states(g, U) ==
    LET q == cons_to_prim(g, U)
        dq == slopes(g, q)
    IN  [q_l |-> left_states(g, q, dq), q_r |-> right_states(g, q, dq)]

----------------------------------------------------------------------------
(* The Riemann solver, the flux divergence and the timestep.               *)

VARIABLES
    pc,       \* the position of the program
    args,     \* the arguments of the FVGrid constructor
    grid,     \* the grid object
    outcome,  \* "none", the exception raised, or "returned"
    solver,   \* which Riemann solver the module riemann provides
    a,        \* a one-dimensional field handed to fill_BCs
    a_old,    \* that field before the last fill_BCs
    U,        \* the conserved state of mol_solve
    U_old,    \* U at the top of the current loop iteration
    U_tmp,    \* the midpoint state
    k1,       \* the flux divergence of stage 0
    k2,       \* the flux divergence of stage 1
    t,        \* the simulation time
    dt        \* the timestep of the current iteration

vars == <<pc, args, grid, outcome, solver, a, a_old, U, U_old, U_tmp, k1, k2, t, dt>>

\* The physical flux (rho u, rho u^2 + p, u (rho E + p)) of a primitive state.
physical_flux(q, g) ==
    LET rho == q[QRHO]
        u == q[QU]
        p == q[QP]
        E == FAdd(FDiv(p, FSub(g, One)), FMul(FMul(Half, rho), FMul(u, u)))
    IN  [n \in Comps |->
           IF n = URHO THEN FMul(rho, u)
           ELSE IF n = UMX THEN FAdd(FMul(rho, FMul(u, u)), p)
           ELSE FMul(u, FAdd(E, p))]

Solvers == {"left", "central"}

\* riemann.riemann: a pure function of its three arguments that returns the
\* physical flux when both states agree.
riemann(q_l, q_r, g) ==
    IF solver = "left" THEN physical_flux(q_l, g)
    ELSE [n \in Comps |->
            FMul(Half, FAdd(physical_flux(q_l, g)[n], physical_flux(q_r, g)[n]))]

\* The interface fluxes make_flux_divergence computes, zero elsewhere.
interface_flux(g, V) ==
    LET s == states(g, V)
        flux == scratch_array(g, NVAR)
    IN  [i \in Cells(g) |->
           IF i \in Interfaces(g) THEN riemann(s.q_l[i], s.q_r[i], gamma)
           ELSE flux[i]]

\* A flux divergence whose left slice starts one interface early:
\* flux[ilo-1:ihi] - flux[ilo+1:ihi+2].
make_flux_divergence_wideleft(g, V) ==
    LET flux == interface_flux(g, V)
    IN  [i \in Cells(g) |-> [n \in Comps |->
           IF i \in Interior(g)
           THEN FDiv(FSub(flux[i - 1][n], flux[i + 1][n]), g.dx)
           ELSE 0]]

\* A flux divergence with the two faces of a cell exchanged.
make_flux_divergence_flipped(g, V) ==
    LET flux == interface_flux(g, V)
    IN  [i \in Cells(g) |-> [n \in Comps |->
           IF i \in Interior(g)
           THEN FDiv(FSub(flux[i + 1][n], flux[i][n]), g.dx)
           ELSE 0]]

make_flux_divergence(g, V) ==
    LET flux == interface_flux(g, V)
        A == scratch_array(g, NVAR)
    IN  [i \in Cells(g) |-> [n \in Comps |->
           IF i \in Interior(g)
           THEN FDiv(FSub(flux[i][n], flux[i + 1][n]), g.dx)
           ELSE A[i][n]]]

\* The sound speed array c of timestep, zero outside the interior.
sound_speed(g, q) ==
    LET c == scratch_array(g, 1)
    IN  [i \in Cells(g) |->
           IF i \in Interior(g)
           THEN FSqrt(FDiv(FMul(gamma, q[i][QP]), q[i][QRHO]))
           ELSE c[i]]

\* A timestep whose maximum runs over every cell, the ghost cells included.
timestep_allcells(g, V) ==
    LET q == cons_to_prim(g, V)
    IN  FDiv(FMul(C, g.dx),
             FMaxOf({FAdd(FAbs(q[i][QU]), FSqrt(FDiv(FMul(gamma, q[i][QP]), q[i][QRHO]))) :
                       i \in Cells(g)}))

timestep(g, V) ==
    LET q == cons_to_prim(g, V)
        c == sound_speed(g, q)
    IN  FDiv(FMul(C, g.dx),
             FMaxOf({FAdd(FAbs(q[i][QU]), c[i]) : i \in Interior(g)}))

\* U + w*k, component by component over the whole array.
axpy(g, V, w, k) ==
    [i \in Cells(g) |-> [n \in Comps |-> FAdd(V[i][n], FMul(w, k[i][n]))]]

----------------------------------------------------------------------------
(* Inputs.                                                                 *)

\* The conserved cell of a primitive state, as mol_solve sets it.
prim_to_cons(rho, u, p) ==
    [n \in Comps |->
       IF n = URHO THEN rho
       ELSE IF n = UMX THEN FMul(rho, u)
       ELSE FAdd(FDiv(p, FSub(gamma, One)), FMul(FMul(Half, rho), FMul(u, u)))]

\* Primitive states (rho, u, p) in thousandths: Sod's left and right
\* states, a fast moving state and the vacuum.
PrimPalette == {<<1000, 0, 1000>>, <<125, 0, 100>>, <<1000, 1000, 4000>>, <<0, 0, 0>>}

Palette == {prim_to_cons(Lit(s[1]), Lit(s[2]), Lit(s[3])) : s \in PrimPalette}

\* What the ghost cells may hold before the first fill: Sod's left state or
\* the zeros of scratch_array.
GhostPalette == {prim_to_cons(Lit(s[1]), Lit(s[2]), Lit(s[3])) :
                   s \in {<<1000, 0, 1000>>, <<0, 0, 0>>}}

\* The arrays an initial condition may leave in U: any palette cell in each
\* interior cell, one ghost value in the ghost cells of each side.
InitialStates(g) ==
    {[i \in Cells(g) |->
         IF i < g.ilo THEN gl ELSE IF i > g.ihi THEN gh ELSE inner[i]] :
       gl \in GhostPalette, gh \in GhostPalette, inner \in [Interior(g) -> Palette]}

\* One-dimensional fields whose neighbouring cells differ.
ScalarFields(g) ==
    {[i \in Cells(g) |-> IntToF((i * m + b) % 3)] : m \in 0 .. 2, b \in 0 .. 2}

Empty == <<>>

----------------------------------------------------------------------------
(* The program.                                                            *)

Init ==
    /\ pc = "start"
    /\ args = [nx |-> 0, ng |-> 0, xmin |-> 0, xmax |-> 0]
    /\ grid = NoGrid
    /\ outcome = "none"
    /\ solver \in Solvers
    /\ a = Empty /\ a_old = Empty
    /\ U = Empty /\ U_old = Empty /\ U_tmp = Empty
    /\ k1 = Empty /\ k2 = Empty
    /\ t = 0 /\ dt = 0

\* grid = FVGrid(nx, ng, xmin, xmax)
Construct ==
    /\ pc = "start"
    /\ \E nx \in (0 - 1) .. MaxNx, ng \in 0 .. MaxNg, xmin \in 0 .. 1, xmax \in 0 .. MaxX :
          /\ args' = [nx |-> nx, ng |-> ng, xmin |-> IntToF(xmin), xmax |-> IntToF(xmax)]
          /\ IF FVGridRaises(nx, ng, IntToF(xmin), IntToF(xmax))
             THEN /\ outcome' = "ZeroDivisionError"
                  /\ pc' = "raised"
                  /\ grid' = grid
             ELSE /\ outcome' = outcome
                  /\ pc' = "grid"
                  /\ grid' = FVGrid(nx, ng, IntToF(xmin), IntToF(xmax))
    /\ UNCHANGED <<solver, a, a_old, U, U_old, U_tmp, k1, k2, t, dt>>

\* A caller allocates a one-dimensional field and sets its values.
AllocScalar ==
    /\ pc = "grid"
    /\ grid.nx >= 1
    /\ \E f \in ScalarFields(grid) : a' = f
    /\ a_old' = a
    /\ pc' = "scalar"
    /\ UNCHANGED <<args, grid, outcome, solver, U, U_old, U_tmp, k1, k2, t, dt>>

\* grid.fill_BCs(a), which a caller may repeat.
FillScalar ==
    /\ pc \in {"scalar", "scalar_filled"}
    /\ a' = fill_BCs(grid, a, 1)
    /\ a_old' = a
    /\ pc' = IF pc = "scalar" THEN "scalar_filled" ELSE "scalar_refilled"
    /\ UNCHANGED <<args, grid, outcome, solver, U, U_old, U_tmp, k1, k2, t, dt>>

\* The configurations the driver's stencil is written for.
Solvable(g) == g.nx >= 1 /\ g.ng >= 2 /\ FLt(g.xmin, g.xmax)

\* U = grid.scratch_array(nc=NVAR), the initial condition, t = 0.0.
SetInitialCondition ==
    /\ pc = "grid"
    /\ Solvable(grid)
    /\ \E V \in InitialStates(grid) : U' = V
    /\ t' = 0
    /\ pc' = "loop"
    /\ UNCHANGED <<args, grid, outcome, solver, a, a_old, U_old, U_tmp, k1, k2, dt>>

\* A loop that goes on while t <= tmax.
LoopTest_inclusive ==
    /\ pc = "loop"
    /\ IF ~FGt(t, tmax) /\ ~IsNaN(t)
       THEN /\ pc' = "timestep"
            /\ outcome' = outcome
       ELSE /\ pc' = "done"
            /\ outcome' = "returned"
    /\ U_old' = U
    /\ UNCHANGED <<args, grid, solver, a, a_old, U, U_tmp, k1, k2, t, dt>>

\* while t < tmax: ... return U
LoopTest ==
    /\ pc = "loop"
    /\ IF FLt(t, tmax)
       THEN /\ pc' = "timestep"
            /\ outcome' = outcome
       ELSE /\ pc' = "done"
            /\ outcome' = "returned"
    /\ U_old' = U
    /\ UNCHANGED <<args, grid, solver, a, a_old, U, U_tmp, k1, k2, t, dt>>

\* dt = timestep(grid, U)
Timestep ==
    /\ pc = "timestep"
    /\ dt' = timestep(grid, U)
    /\ pc' = "clamp"
    /\ UNCHANGED <<args, grid, outcome, solver, a, a_old, U, U_old, U_tmp, k1, k2, t>>

\* A driver that keeps the computed timestep.
ClampStep_missing ==
    /\ pc = "clamp"
    /\ dt' = dt
    /\ pc' = "fill0"
    /\ UNCHANGED <<args, grid, outcome, solver, a, a_old, U, U_old, U_tmp, k1, k2, t>>

\* if t + dt > tmax: dt = tmax - t
ClampStep ==
    /\ pc = "clamp"
    /\ dt' = IF FGt(FAdd(t, dt), tmax) THEN FSub(tmax, t) ELSE dt
    /\ pc' = "fill0"
    /\ UNCHANGED <<args, grid, outcome, solver, a, a_old, U, U_old, U_tmp, k1, k2, t>>

\* A driver that evaluates stage 0 on the ghost cells as it finds them.
FillU_skipped ==
    /\ pc = "fill0"
    /\ U' = U
    /\ pc' = "k1"
    /\ UNCHANGED <<args, grid, outcome, solver, a, a_old, U_old, U_tmp, k1, k2, t, dt>>

\* grid.fill_BCs(U)
FillU ==
    /\ pc = "fill0"
    /\ U' = fill_BCs(grid, U, NVAR)
    /\ pc' = "k1"
    /\ UNCHANGED <<args, grid, outcome, solver, a, a_old, U_old, U_tmp, k1, k2, t, dt>>

\* k1 = make_flux_divergence(grid, U)
Stage0Flux ==
    /\ pc = "k1"
    /\ k1' = make_flux_divergence(grid, U)
    /\ pc' = "mid"
    /\ UNCHANGED <<args, grid, outcome, solver, a, a_old, U, U_old, U_tmp, k2, t, dt>>

\* U_tmp[:, n] = U[:, n] + 0.5 * dt * k1[:, n]
Midpoint ==
    /\ pc = "mid"
    /\ U_tmp' = axpy(grid, U, FMul(Half, dt), k1)
    /\ pc' = "fill1"
    /\ UNCHANGED <<args, grid, outcome, solver, a, a_old, U, U_old, k1, k2, t, dt>>

\* A driver that evaluates stage 1 without filling the midpoint state.
FillUtmp_skipped ==
    /\ pc = "fill1"
    /\ U_tmp' = U_tmp
    /\ pc' = "k2"
    /\ UNCHANGED <<args, grid, outcome, solver, a, a_old, U, U_old, k1, k2, t, dt>>

\* grid.fill_BCs(U_tmp)
FillUtmp ==
    /\ pc = "fill1"
    /\ U_tmp' = fill_BCs(grid, U_tmp, NVAR)
    /\ pc' = "k2"
    /\ UNCHANGED <<args, grid, outcome, solver, a, a_old, U, U_old, k1, k2, t, dt>>

\* k2 = make_flux_divergence(grid, U_tmp)
Stage1Flux ==
    /\ pc = "k2"
    /\ k2' = make_flux_divergence(grid, U_tmp)
    /\ pc' = "update"
    /\ UNCHANGED <<args, grid, outcome, solver, a, a_old, U, U_old, U_tmp, k1, t, dt>>

\* A final update that averages the two slopes (the classical Heun form).
Update_averaged ==
    /\ pc = "update"
    /\ U' = axpy(grid, axpy(grid, U, FMul(Half, dt), k1), FMul(Half, dt), k2)
    /\ pc' = "advance"
    /\ UNCHANGED <<args, grid, outcome, solver, a, a_old, U_old, U_tmp, k1, k2, t, dt>>

\* U[:, n] += dt * k2[:, n]
Update ==
    /\ pc = "update"
    /\ U' = axpy(grid, U, dt, k2)
    /\ pc' = "advance"
    /\ UNCHANGED <<args, grid, outcome, solver, a, a_old, U_old, U_tmp, k1, k2, t, dt>>

\* t += dt
Advance ==
    /\ pc = "advance"
    /\ t' = FAdd(t, dt)
    /\ pc' = "loop"
    /\ UNCHANGED <<args, grid, outcome, solver, a, a_old, U, U_old, U_tmp, k1, k2, dt>>

Next ==
    \/ Construct
    \/ AllocScalar
    \/ FillScalar
    \/ SetInitialCondition
    \/ LoopTest
    \/ Timestep
    \/ ClampStep
    \/ FillU
    \/ Stage0Flux
    \/ Midpoint
    \/ FillUtmp
    \/ Stage1Flux
    \/ Update
    \/ Advance

Spec == Init /\ [][Next]_vars

\* The positions inside the driving loop; at each of them the next statement
\* of mol_solve can always be executed.
LoopPositions ==
    {"loop", "timestep", "clamp", "fill0", "k1", "mid", "fill1", "k2", "update", "advance"}

\* The program leaves a position of the loop.
Proceed == pc \in LoopPositions /\ pc' \in LoopPositions \cup {"done"} /\ pc' # pc

\* The program is sequential and nothing suspends it: inside the loop it
\* always goes on to execute its next statement.
LiveSpec == Spec /\ WF_pc(Proceed)

----------------------------------------------------------------------------
(* Boundary fill.                                                          *)

\* f is g filled: every low ghost cell holds f's first interior cell, every
\* high ghost cell its last, and the interior is that of g.
IsFillOf(f, before) ==
    /\ DOMAIN f = Cells(grid)
    /\ \A i \in Cells(grid) :
          /\ i < grid.ilo => f[i] = f[grid.ilo]
          /\ i > grid.ihi => f[i] = f[grid.ihi]
          /\ i \in Interior(grid) => f[i] = before[i]

\* C2: after fill_BCs on a grid with nx >= 1, every ghost cell below ilo
\* equals the first interior cell, every ghost cell above ihi equals the last
\* interior cell and the interior cells are unchanged, for a scalar field
\* (a) and for the vector fields of the driver (U after stage 0's fill,
\* U_tmp after stage 1's).
C2_FillCopiesEdges ==
    /\ pc \in {"scalar_filled", "scalar_refilled"} => IsFillOf(a, a_old)
    /\ pc = "k1" => IsFillOf(U, U_old)
    /\ pc = "k2" => IsFillOf(U_tmp, axpy(grid, U, FMul(Half, dt), k1))

\* A vector fill that rewrote ghost cells on both sides of a two-cell interior.
C2_Witness ==
    /\ pc = "k1"
    /\ grid.nx >= 2
    /\ U[0] # U_old[0]
    /\ U[grid.ihi + 1] # U_old[grid.ihi + 1]
    /\ U[grid.ilo] # U[grid.ihi]

\* C3: fill_BCs is idempotent: a second call in a row leaves the field as
\* the first call left it (the scalar field after the repeated call, and a
\* further fill of the just filled U and U_tmp).
C3_FillIdempotent ==
    /\ pc = "scalar_refilled" => a = a_old
    /\ pc = "k1" => fill_BCs(grid, U, NVAR) = U
    /\ pc = "k2" => fill_BCs(grid, U_tmp, NVAR) = U_tmp

\* A repeated scalar fill on a grid with ghost cells and a two-valued field.
C3_Witness ==
    /\ pc = "scalar_refilled"
    /\ grid.ng >= 2
    /\ a[0] # a[grid.ihi + 1]

----------------------------------------------------------------------------
(* Grid construction.                                                      *)

InvalidConfiguration(nx, ng, xmin, xmax) ==
    nx <= 0 \/ ng < 2 \/ ~FLt(xmin, xmax)

\* C6: constructing FVGrid with nx <= 0, ng < 2 or xmin >= xmax is rejected
\* at construction: an error outcome and no grid object.
C6_InvalidConfigurationRejected ==
    (pc # "start" /\ InvalidConfiguration(args.nx, args.ng, args.xmin, args.xmax))
        => (outcome # "none" /\ grid = NoGrid)

----------------------------------------------------------------------------
(* Reconstruction and flux divergence.                                     *)

\* Every cell of V, ghosts included, holds the same finite values.
Uniform(V) ==
    \A i \in DOMAIN V : \A n \in Comps : IsFinite(V[i][n]) /\ V[i][n] = V[0][n]

\* The interface states and slopes of V agree with the primitive state of
\* every cell, with zero slope.
ReconstructsUniform(V) ==
    LET q == cons_to_prim(grid, V)
        dq == slopes(grid, q)
        s == states(grid, V)
    IN  /\ \A i \in Cells(grid) : \A n \in Comps : dq[i][n] = 0
        /\ \A i \in Interfaces(grid) : \A n \in Comps :
              /\ s.q_l[i][n] = q[0][n]
              /\ s.q_r[i][n] = q[0][n]

\* C7: when the array handed to states() is uniform over all cells with a
\* nonzero density, both interface states equal the uniform primitive state
\* at every interface ilo..ihi+1 and every slope is zero.
C7_UniformReconstruction ==
    /\ (pc = "k1" /\ Uniform(U) /\ U[0][URHO] # 0) => ReconstructsUniform(U)
    /\ (pc = "k2" /\ Uniform(U_tmp) /\ U_tmp[0][URHO] # 0) => ReconstructsUniform(U_tmp)

\* A uniform moving state on a grid of two interior cells.
C7_Witness ==
    /\ pc = "k1"
    /\ grid.nx >= 2
    /\ Uniform(U)
    /\ U[0][URHO] # 0
    /\ U[0][UMX] # 0

\* k is the flux divergence of V: the face difference of the Riemann fluxes
\* over dx in the interior, zero in the ghost cells, with the shape of V.
IsFluxDivergenceOf(k, V) ==
    LET s == states(grid, V)
        F(j) == riemann(s.q_l[j], s.q_r[j], gamma)
    IN  /\ DOMAIN k = DOMAIN V
        /\ \A i \in DOMAIN k : DOMAIN k[i] = DOMAIN V[i]
        /\ \A i \in Cells(grid) : \A n \in Comps :
              k[i][n] = IF i >= grid.ilo /\ i <= grid.ihi
                        THEN FDiv(FSub(F(i)[n], F(i + 1)[n]), grid.dx)
                        ELSE 0

\* C8: make_flux_divergence returns an array of the shape of its argument
\* with RHS[i] = (flux[i] - flux[i+1])/dx in every interior cell, flux[j]
\* the Riemann flux at interface j, and zero in every ghost cell (k1 of U,
\* k2 of U_tmp).
C8_FluxDivergence ==
    /\ pc = "mid" => IsFluxDivergenceOf(k1, U)
    /\ pc = "update" => IsFluxDivergenceOf(k2, U_tmp)

\* A flux divergence with a nonzero finite entry on a two-cell interior.
C8_Witness ==
    /\ pc = "mid"
    /\ grid.nx >= 2
    /\ \E i \in Interior(grid) : k1[i][URHO] # 0 /\ IsFinite(k1[i][URHO])

----------------------------------------------------------------------------
(* The integrator and the driving loop.                                    *)

\* The state one step of size h makes of V, and its midpoint state.
FilledOld == fill_BCs(grid, U_old, NVAR)
MidpointOf(V, h) == axpy(grid, V, FMul(Half, h), make_flux_divergence(grid, V))
StepOf(V, h) ==
    axpy(grid, V, h, make_flux_divergence(grid, fill_BCs(grid, MidpointOf(V, h), NVAR)))

\* C4: after the final update every interior cell holds U_old + dt*k2, with
\* k1 the flux divergence of the filled U_old, U_mid = U_old + 0.5*dt*k1 on
\* every cell and k2 the flux divergence of the filled U_mid; k1 enters only
\* through U_mid and the update is applied to U_old.
C4_UpdateRule ==
    pc = "advance" =>
        /\ U_tmp = fill_BCs(grid, MidpointOf(FilledOld, dt), NVAR)
        /\ k2 = make_flux_divergence(grid, U_tmp)
        /\ \A i \in Interior(grid) : \A n \in Comps :
              U[i][n] = FAdd(U_old[i][n], FMul(dt, k2[i][n]))

\* A finite update in which the two slopes differ and the state changed.
C4_Witness ==
    /\ pc = "advance"
    /\ \E i \in Interior(grid) :
          /\ IsFinite(U[i][URHO])
          /\ k1[i][URHO] # k2[i][URHO]
          /\ U[i][URHO] # U_old[i][URHO]
          /\ U[i][URHO] # U_tmp[i][URHO]

\* C5: when the computed timestep would pass tmax, the integrator runs with
\* dt = tmax - t exactly, and the simulation time never exceeds tmax.
C5_StepClamp ==
    /\ ~FGt(t, tmax)
    /\ (pc = "fill0" /\ FGt(FAdd(t, timestep(grid, U)), tmax)) => dt = FSub(tmax, t)
    /\ pc \in {"k1", "mid", "fill1", "k2", "update", "advance"} => ~FGt(FAdd(t, dt), tmax)

\* A clamped second iteration: the first step was shorter than tmax.
C5_Witness ==
    /\ pc = "fill0"
    /\ FGt(t, 0)
    /\ FGt(FAdd(t, timestep(grid, U)), tmax)
    /\ dt = FSub(tmax, t)

----------------------------------------------------------------------------
(* Conservation.                                                           *)

RECURSIVE SumOver(_, _, _, _)
\* The exact sum of component n of V over the cells lo..hi.
SumOver(V, n, lo, hi) ==
    IF lo > hi THEN 0 ELSE V[lo][n] + SumOver(V, n, lo + 1, hi)

\* The interface fluxes of the evaluation used for the final update.
FinalFlux == interface_flux(grid, U_tmp)

\* The change of the interior sum of component n over the step.
InteriorChange(n) ==
    SumOver(U, n, grid.ilo, grid.ihi) - SumOver(U_old, n, grid.ilo, grid.ihi)

\* (flux[ilo] - flux[ihi+1])*dt/dx as the floats compute it.
BoundaryImbalance(n) ==
    FDiv(FMul(FSub(FinalFlux[grid.ilo][n], FinalFlux[grid.ihi + 1][n]), dt), grid.dx)

\* A step all of whose values are finite numbers.
FiniteStep ==
    /\ IsFinite(dt)
    /\ \A i \in Cells(grid) : \A n \in Comps :
          /\ IsFinite(U[i][n]) /\ IsFinite(U_old[i][n])
          /\ IsFinite(k2[i][n]) /\ IsFinite(FinalFlux[i][n])
    /\ \A n \in Comps : IsFinite(BoundaryImbalance(n))

RoundingAllowance ==
    grid.nx * grid.dx * (Abs(dt) + Scale) + Scale * Scale + Scale * grid.dx

----------------------------------------------------------------------------
(* The timestep.                                                           *)

\* |u| + c of cell i of the primitive state q.
SignalSpeed(q, i) ==
    FAdd(FAbs(q[i][QU]), FSqrt(FDiv(FMul(gamma, q[i][QP]), q[i][QRHO])))

\* Density and pressure are positive in interior cell i.
PhysicalCell(q, i) == FGt(q[i][QRHO], 0) /\ FGt(q[i][QP], 0)

\* No interior value of the conversion or signal speed has overflowed.
FiniteSpeeds(q) ==
    \A i \in Interior(grid) :
        IsFinite(q[i][QRHO]) /\ IsFinite(q[i][QP]) /\ IsFinite(SignalSpeed(q, i))

\* d is C*dx/s_max for s_max the largest interior signal speed, and positive.
IsCflStepOf(d, V) ==
    LET q == cons_to_prim(grid, V)
    IN  /\ FGt(d, 0)
        /\ \E j \in Interior(grid) :
              /\ \A i \in Interior(grid) : SignalSpeed(q, i) <= SignalSpeed(q, j)
              /\ d = FDiv(FMul(C, grid.dx), SignalSpeed(q, j))

----------------------------------------------------------------------------
(* Non-physical states.                                                    *)

\* An interior cell of V has a density or pressure that is not a positive
\* number: negative, zero as a divisor, nan or infinite.
NonPhysical(V) ==
    \E i \in Interior(grid) :
        LET q == cons_to_prim(grid, V)
        IN  \/ ~FGt(q[i][QRHO], 0) \/ ~IsFinite(q[i][QRHO])
            \/ FLt(q[i][QP], 0) \/ ~IsFinite(q[i][QP])

\* C10: once a non-physical conserved state has been converted (U by
\* timestep and stage 0, U_tmp by stage 1) or produced by a stage update,
\* the outcome is a "non-physical state" error and the run does not go on.
C10_NonPhysicalSignalled ==
    /\ (pc \in {"clamp", "fill0", "k1", "mid", "fill1", "k2", "update", "advance", "done"}
          /\ NonPhysical(U)) => outcome = "non-physical state"
    /\ (pc \in {"k2", "update", "advance"} /\ NonPhysical(U_tmp))
          => outcome = "non-physical state"

\* The run returned normally a state that is not physical.
C10_ReturnedNonPhysical == pc = "done" /\ outcome = "returned" /\ NonPhysical(U)

----------------------------------------------------------------------------
(* Degenerate timestep estimates.                                          *)

\* The maximum of |u| + c over the interior cells of V, as timestep takes it.
MaxSignalSpeed(V) ==
    FMaxOf({SignalSpeed(cons_to_prim(grid, V), i) : i \in Interior(grid)})

\* That maximum is zero, infinite or nan.
DegenerateSpeed(V) ==
    MaxSignalSpeed(V) = 0 \/ ~IsFinite(MaxSignalSpeed(V))

\* C11: when the maximum interior signal speed is zero or not finite,
\* timestep reports an error outcome of its own, distinct from the
\* "non-physical state" error, and hands no dt to the driver.
C11_DegeneracySignalled ==
    (pc = "clamp" /\ DegenerateSpeed(U))
        => outcome \notin {"none", "returned", "non-physical state"}

\* timestep returned an infinite, zero or nan dt as an ordinary value and the
\* driver went on with it.
C11_DegenerateStepUsed ==
    /\ pc = "fill0"
    /\ DegenerateSpeed(U)
    /\ outcome = "none"

----------------------------------------------------------------------------
(* The frame of the final update.                                          *)

\* C13: the final update changes no ghost cell of U: after it every ghost
\* cell holds the value the stage-0 boundary fill wrote.
C13_GhostCellsKept ==
    pc = "advance" =>
        \A i \in Cells(grid) \ Interior(grid) : U[i] = FilledOld[i]

\* A final update with a nan timestep that turned a finite ghost cell into nan.
C13_GhostCellOverwritten ==
    /\ pc = "advance"
    /\ IsNaN(dt)
    /\ \E i \in Cells(grid) \ Interior(grid) :
          IsFinite(FilledOld[i][URHO]) /\ IsNaN(U[i][URHO])

----------------------------------------------------------------------------
(* The array accesses of the reconstruction, the flux assembly and the      *)
(* timestep.                                                                *)

\* The length nx + 2*ng of every array of the grid.
ArrayLen(g) == g.nx + 2 * g.ng

\* A slice bound as Python resolves it in an array of length n: a negative
\* bound counts from the end, and every bound is clipped to 0..n.
PyBound(k, n) ==
    IF k < 0 THEN (IF k + n < 0 THEN 0 ELSE k + n)
    ELSE IF k > n THEN n ELSE k

\* The cells arr[lo:hi] selects in an array of length n.
PySlice(lo, hi, n) == PyBound(lo, n) .. (PyBound(hi, n) - 1)

\* The slice arr[lo:hi] as written in the source.
Sl(arr, lo, hi) == [arr |-> arr, lo |-> lo, hi |-> hi]

\* One elementwise statement: the slice it assigns and the slices it reads.
Stmt(target, sources) == [writes |-> target, reads |-> sources]

\* cons_to_prim: q[:, ...] = ... U[:, ...] ... over the whole arrays.
cons_to_prim_statements(g) ==
    {Stmt({Sl("q", 0, ArrayLen(g))}, {Sl("U", 0, ArrayLen(g)), Sl("q", 0, ArrayLen(g))})}

\* The slope statement with its source slices one cell further out:
\* 0.5*(q[ilo+1:ihi+4] - q[ilo-3:ihi]).
slope_statements_wide(g) ==
    {Stmt({Sl("dq", g.ilo - 1, g.ihi + 2)},
          {Sl("q", g.ilo + 1, g.ihi + 4), Sl("q", g.ilo - 3, g.ihi)})}

\* dq[ilo-1:ihi+2] = 0.5*(q[ilo:ihi+3] - q[ilo-2:ihi+1])
slope_statements(g) ==
    {Stmt({Sl("dq", g.ilo - 1, g.ihi + 2)},
          {Sl("q", g.ilo, g.ihi + 3), Sl("q", g.ilo - 2, g.ihi + 1)})}

\* The interface-state statements with the left state built from the slope
\* two cells down: q_l[ilo:ihi+2] = q[ilo-1:ihi+1] + 0.5*dq[ilo-2:ihi].
state_statements_far(g) ==
    {Stmt({Sl("q_l", g.ilo, g.ihi + 2)},
          {Sl("q", g.ilo - 1, g.ihi + 1), Sl("dq", g.ilo - 2, g.ihi)}),
     Stmt({Sl("q_r", g.ilo, g.ihi + 2)},
          {Sl("q", g.ilo, g.ihi + 2), Sl("dq", g.ilo, g.ihi + 2)})}

\* q_l[ilo:ihi+2] = q[ilo-1:ihi+1] + 0.5*dq[ilo-1:ihi+1]
\* q_r[ilo:ihi+2] = q[ilo:ihi+2] - 0.5*dq[ilo:ihi+2]
state_statements(g) ==
    {Stmt({Sl("q_l", g.ilo, g.ihi + 2)},
          {Sl("q", g.ilo - 1, g.ihi + 1), Sl("dq", g.ilo - 1, g.ihi + 1)}),
     Stmt({Sl("q_r", g.ilo, g.ihi + 2)},
          {Sl("q", g.ilo, g.ihi + 2), Sl("dq", g.ilo, g.ihi + 2)})}

\* The slice statements of the body of states().
states_statements(g) == slope_statements(g) \cup state_statements(g)

\* for i in range(ilo, ihi+2): flux[i, :] = riemann(q_l[i, :], q_r[i, :], gamma)
\* A[ilo:ihi+1] = (flux[ilo:ihi+1] - flux[ilo+1:ihi+2])/dx
make_flux_divergence_statements(g) ==
    {Stmt({Sl("flux", i, i + 1)}, {Sl("q_l", i, i + 1), Sl("q_r", i, i + 1)}) :
        i \in g.ilo .. (g.ihi + 1)}
    \cup {Stmt({Sl("A", g.ilo, g.ihi + 1)},
               {Sl("flux", g.ilo, g.ihi + 1), Sl("flux", g.ilo + 1, g.ihi + 2)})}

\* c[ilo:ihi+1] = sqrt(gamma*q[ilo:ihi+1, QP]/q[ilo:ihi+1, QRHO])
\* (abs(q[ilo:ihi+1, QU]) + c[ilo:ihi+1]).max()
timestep_statements(g) ==
    {Stmt({Sl("c", g.ilo, g.ihi + 1)}, {Sl("q", g.ilo, g.ihi + 1)}),
     Stmt({}, {Sl("q", g.ilo, g.ihi + 1), Sl("c", g.ilo, g.ihi + 1)})}

\* The slice and subscript statements of states(), make_flux_divergence()
\* and timestep().
StencilStatements(g) ==
    states_statements(g) \cup make_flux_divergence_statements(g)
        \cup timestep_statements(g)

\* grid.scratch_array(): np.zeros writes every cell of the arrays the three
\* functions allocate.
scratch_array_statements(g) ==
    {Stmt({Sl(arr, 0, ArrayLen(g))}, {}) : arr \in {"q", "dq", "q_l", "q_r", "flux", "A", "c"}}

\* Those statements together with the whole-array operations the three
\* functions call.
AllStatements(g) ==
    StencilStatements(g) \cup cons_to_prim_statements(g) \cup scratch_array_statements(g)

\* The slices a set of statements touches, and those it reads of array arr.
SlicesOf(stmts) == UNION {st.writes \cup st.reads : st \in stmts}
ReadsOf(stmts, arr) == {sl \in UNION {st.reads : st \in stmts} : sl.arr = arr}

\* The cells a set of slices selects.
CellsOf(g, slices) == UNION {PySlice(sl.lo, sl.hi, ArrayLen(g)) : sl \in slices}

\* The statements of the reconstruction and the flux assembly.
FluxStatements(g) == states_statements(g) \cup make_flux_divergence_statements(g)

\* The cells of array arr the reconstruction and flux assembly read, and
\* those they assign.
CellsRead(arr) == CellsOf(grid, ReadsOf(FluxStatements(grid), arr))
CellsWritten(arr) ==
    CellsOf(grid, {sl \in UNION {st.writes : st \in FluxStatements(grid)} : sl.arr = arr})

\* C14 as claimed: no entry of dq, q_l or q_r outside [ilo, ihi+1] is read
\* during reconstruction and flux assembly.
C14_ReadsWithinInterfaces ==
    pc \in {"mid", "update"} =>
        \A arr \in {"dq", "q_l", "q_r"} : CellsRead(arr) \subseteq Interfaces(grid)

\* C14: during reconstruction and flux assembly no slope dq[i] outside
\* [ilo-1, ihi+1] and no interface state q_l[i] or q_r[i] outside
\* [ilo, ihi+1] is read: the left state of interface ilo reads dq[ilo-1],
\* and every entry read is one the reconstruction has written.
C14_ReadsWithinWritten ==
    pc \in {"mid", "update"} =>
        /\ CellsRead("dq") \subseteq (grid.ilo - 1) .. (grid.ihi + 1)
        /\ CellsRead("q_l") \subseteq Interfaces(grid)
        /\ CellsRead("q_r") \subseteq Interfaces(grid)
        /\ \A arr \in {"dq", "q_l", "q_r"} : CellsRead(arr) \subseteq CellsWritten(arr)

\* A flux evaluation on a grid with three ghost cells a side, so that
\* entries outside the ranges exist, which read the slope of cell ilo-1.
C14_Witness ==
    /\ pc = "mid"
    /\ grid.nx >= 2
    /\ grid.ng = 3
    /\ (grid.ilo - 1) \in CellsRead("dq")
    /\ \E i \in Interior(grid) : k1[i][URHO] # 0

----------------------------------------------------------------------------
(* The stencil and the array.                                              *)

\* The reconstruction stencil: two cells on either side of the interior.
Stencil(g) == (g.ilo - 2) .. (g.ihi + 2)

\* Every cell the statements touch lies in the stencil.
InStencil(g, stmts) == CellsOf(g, SlicesOf(stmts)) \subseteq Stencil(g)

\* No slice bound is negative (which would count from the end) or beyond
\* the end of the array, and no slice is reversed.
InArray(g, stmts) ==
    \A sl \in SlicesOf(stmts) : 0 <= sl.lo /\ sl.lo <= sl.hi /\ sl.hi <= ArrayLen(g)

\* The slices of each statement select the same number of cells.
EqualLengths(g, stmts) ==
    \A st \in stmts : \A s1, s2 \in st.writes \cup st.reads :
        Cardinality(PySlice(s1.lo, s1.hi, ArrayLen(g)))
            = Cardinality(PySlice(s2.lo, s2.hi, ArrayLen(g)))

\* C16 as claimed: on a grid with nx >= 1 and ng >= 2 (when it has been
\* constructed, and when the three functions have run on it) every cell index
\* states(), make_flux_divergence() and timestep() read or write, the
\* conversions and allocations they call included, lies in [ilo-2, ihi+2].
C16_AllAccessesInStencil ==
    (pc \in {"grid", "mid"} /\ grid.nx >= 1 /\ grid.ng >= 2) =>
        /\ InStencil(grid, AllStatements(grid))
        /\ InArray(grid, AllStatements(grid))
        /\ EqualLengths(grid, AllStatements(grid))

\* C16: on a grid with nx >= 1 and ng >= 2 (when it has been constructed,
\* and when the three functions have run on it) every cell index of a slice or
\* subscript of states(), make_flux_divergence() and timestep() lies in
\* [ilo-2, ihi+2], which lies in the array range [0, nx+2*ng-1]; no index
\* of these or of the whole-array operations they call is negative or
\* beyond the last element, and the slices of each assignment have equal
\* length.
C16_StencilInsideArray ==
    (pc \in {"grid", "mid"} /\ grid.nx >= 1 /\ grid.ng >= 2) =>
        /\ InStencil(grid, StencilStatements(grid))
        /\ Stencil(grid) \subseteq 0 .. (ArrayLen(grid) - 1)
        /\ CellsOf(grid, SlicesOf(AllStatements(grid))) \subseteq Cells(grid)
        /\ InArray(grid, AllStatements(grid))
        /\ EqualLengths(grid, AllStatements(grid))

\* A flux evaluation on a grid with exactly two ghost cells a side, where
\* the stencil reaches the first and the last cell of the array.
C16_Witness ==
    /\ pc = "mid"
    /\ grid.nx >= 2
    /\ grid.ng = 2
    /\ 0 \in CellsOf(grid, SlicesOf(StencilStatements(grid)))
    /\ (ArrayLen(grid) - 1) \in CellsOf(grid, SlicesOf(StencilStatements(grid)))

----------------------------------------------------------------------------
(* The order of boundary fill and flux evaluation.                         *)

\* Every ghost cell of V holds the value of the adjacent interior edge cell.
GhostsHoldEdges(V) ==
    \A i \in Cells(grid) :
        /\ i < grid.ilo => V[i] = V[grid.ilo]
        /\ i > grid.ihi => V[i] = V[grid.ihi]

\* A step of the driver: the position of a flux evaluation is entered only
\* by the boundary fill of the array about to be evaluated, and left only
\* by the flux evaluation of that array, unchanged since the fill; the flux
\* divergences are computed nowhere else.
FillThenFlux ==
    /\ (pc' = "k1" /\ pc # "k1") => (pc = "fill0" /\ U' = fill_BCs(grid, U, NVAR))
    /\ (pc = "k1" /\ pc' # "k1") =>
          /\ pc' = "mid"
          /\ GhostsHoldEdges(U)
          /\ k1' = make_flux_divergence(grid, U)
          /\ U' = U
    /\ (pc' = "k2" /\ pc # "k2") => (pc = "fill1" /\ U_tmp' = fill_BCs(grid, U_tmp, NVAR))
    /\ (pc = "k2" /\ pc' # "k2") =>
          /\ pc' = "update"
          /\ GhostsHoldEdges(U_tmp)
          /\ k2' = make_flux_divergence(grid, U_tmp)
          /\ U_tmp' = U_tmp
    /\ k1' # k1 => pc = "k1"
    /\ k2' # k2 => pc = "k2"

\* C12: in every iteration of the driving loop each flux evaluation (of U in
\* stage 0, of U_tmp in stage 1) is directly preceded by fill_BCs on that
\* array with no write to it in between, so every ghost cell the evaluation
\* reads holds the adjacent interior edge value of that array.
C12_FillPrecedesFlux == [][FillThenFlux]_vars

\* Stage 1's flux has been evaluated on a midpoint state whose ghost cells
\* the fill had to rewrite.
C12_Witness ==
    /\ pc = "update"
    /\ grid.nx >= 2
    /\ U_tmp # axpy(grid, U, FMul(Half, dt), k1)
    /\ k2 # k1

----------------------------------------------------------------------------
(* Independence of the ghost cells of the input state.                     *)

\* The timestep the driver uses at time tt when timestep() returned d.
ClampedStep(tt, d) == IF FGt(FAdd(tt, d), tmax) THEN FSub(tmax, tt) ELSE d

\* One iteration of the driving loop started at time tt from the state V
\* computes the timestep dt, the stage values k1, U_tmp and k2, and the
\* state R: timestep, clamp, stage-0 fill and the two-stage update.
IterationYields(V, tt, R) ==
    LET F == fill_BCs(grid, V, NVAR)
    IN  /\ dt = ClampedStep(tt, timestep(grid, V))
        /\ k1 = make_flux_divergence(grid, F)
        /\ U_tmp = fill_BCs(grid, axpy(grid, F, FMul(Half, dt), k1), NVAR)
        /\ k2 = make_flux_divergence(grid, U_tmp)
        /\ R = axpy(grid, F, dt, k2)

\* What a ghost cell may hold: the vacuum, a fast state and a cell of nans.
NaNCell == [n \in Comps |-> NaN]
GhostValues ==
    {prim_to_cons(Lit(s[1]), Lit(s[2]), Lit(s[3])) :
        s \in {<<0, 0, 0>>, <<1000, 1000, 4000>>}}
    \cup {NaNCell}

\* V with its ghost cells replaced: x in the even cells, y in the odd ones.
WithGhosts(V, x, y) ==
    [i \in Cells(grid) |->
        IF i \in Interior(grid) THEN V[i] ELSE IF i % 2 = 0 THEN x ELSE y]

\* C17: a conserved state that agrees with the input state of an iteration
\* on every interior cell, whatever its ghost cells hold, gets the same dt
\* from timestep() and the same state on every cell, interior and ghost,
\* from one iteration of the driving loop (timestep, clamp, two-stage
\* update).  The iteration reads its input state through timestep() and
\* the stage-0 fill alone: both give every such state what they give the
\* input state, and the iteration of the state with nan in every ghost cell,
\* carried out in full, ends in the state the driver reached.
C17_GhostsCarryNoInformation ==
    pc = "advance" =>
        LET d == timestep(grid, U_old)
            F == FilledOld
        IN  /\ \A x, y \in GhostValues :
                  /\ timestep(grid, WithGhosts(U_old, x, y)) = d
                  /\ fill_BCs(grid, WithGhosts(U_old, x, y), NVAR) = F
            /\ IterationYields(WithGhosts(U_old, NaNCell, NaNCell), t, U)

\* A finite iteration on two interior cells whose input state had ghost
\* cells unlike its edge cells, and which changed the state.
C17_Witness ==
    /\ pc = "advance"
    /\ grid.nx >= 2
    /\ U_old[0] # U_old[grid.ilo]
    /\ U_old[grid.ihi + 1] # U_old[grid.ihi]
    /\ IsFinite(dt)
    /\ \E i \in Interior(grid) : IsFinite(U[i][URHO]) /\ U[i][URHO] # U_old[i][URHO]

----------------------------------------------------------------------------
(* Termination of the driving loop.                                        *)

\* A step of the driver: a timestep is computed only at the top of an
\* iteration, the integrator is entered only with the timestep just computed
\* and clamped, every computed timestep is handed to the integrator, U is
\* updated only by the final update of the integrator, and after it the
\* driver goes back to the loop test.
OncePerTimestep ==
    /\ (pc' = "timestep" /\ pc # "timestep") => pc = "loop"
    /\ (pc' = "clamp" /\ pc # "clamp") => (pc = "timestep" /\ dt' = timestep(grid, U))
    /\ (pc = "clamp" /\ pc' # "clamp") => pc' = "fill0"
    /\ (pc' = "fill0" /\ pc # "fill0") => pc = "clamp"
    /\ (pc' = "advance" /\ pc # "advance") => (pc = "update" /\ U' = axpy(grid, U, dt, k2))
    /\ (pc = "advance" /\ pc' # "advance") => (pc' = "loop" /\ t' = FAdd(t, dt))
    /\ (t' # t /\ pc # "grid") => pc = "advance"

\* Every timestep timestep() has returned was positive (a positive value
\* of the number model is at least one unit of its resolution).
PositiveSteps == [](pc = "clamp" => FGt(dt, 0))

\* C15: if every computed timestep is positive and bounded below by a
\* positive constant, the loop of mol_solve terminates with t = tmax, and
\* the integrator runs exactly once for each computed timestep, with no
\* retry and no sub-cycling.
C15_Termination ==
    /\ [][OncePerTimestep]_vars
    /\ (PositiveSteps => [](pc = "loop" => <>(pc = "done" /\ t = tmax)))

\* A run that returned at t = tmax after more than one iteration, with a
\* finite state.
C15_Witness ==
    /\ pc = "done"
    /\ t = tmax
    /\ FGt(dt, 0)
    /\ FLt(dt, tmax)
    /\ \A i \in Interior(grid) : \A n \in Comps : IsFinite(U[i][n])

=============================================================================
